---- MODULE Spec2Model ----
(***************************************************************************)
(* The asynchronous coordination layer of the article dashboard: article   *)
(* loads, status refresh, debounced search, auto-refresh, manual refresh,  *)
(* and the add-source modal with its two source registries.                *)
(*                                                                         *)
(* One action is one run of a handler from an event (a click, an input     *)
(* event, a timer, a network completion) to its next await: JavaScript     *)
(* runs that stretch without interleaving.                                 *)
(***************************************************************************)
EXTENDS Integers, Sequences, FiniteSets, TLC

\* ------------------------------------------------------------------ bounds
\* requests that may be in flight together
MaxNet == 2
\* timer handles the browser hands out in a run (setTimeout and setInterval)
MaxTimers == 3
\* articles a response may carry
MaxArticles == 1
\* source ids a registry may hold
MaxIds == 2
\* milliseconds by which the clock advances in one step
TimeStep == 175
\* characters a summary text may have
MaxLen == 3
\* the largest limit a summary is truncated to
MaxLimit == 2

\* ------------------------------------------------------------------ program constants
\* the debounce quiet period (setTimeout delay)
QuietPeriod == 350

\* ------------------------------------------------------------------ values
SearchValues == { <<>>, <<" ">>, <<" ", "a", " ">> }
UrlValues == { <<>>, <<" ">>, <<"u", " ">> }
NameValues == { <<>>, <<"n">> }
Registries == {"feeds", "sites"}
Tabs == {"feed", "site"}
Ids == 1..MaxIds
LoadIds == 1..(MaxNet + 2)

Min(S) == CHOOSE x \in S : \A y \in S : x <= y
Max(S) == CHOOSE x \in S : \A y \in S : x >= y

RemoveAt(s, i) == SubSeq(s, 1, i - 1) \o SubSeq(s, i + 1, Len(s))

\* String.prototype.trim, on a text held as a sequence of characters
IsSpace(c) == c = " "

RECURSIVE trimStart(_)
trimStart(s) ==
    IF s = <<>> THEN s
    ELSE IF IsSpace(Head(s)) THEN trimStart(Tail(s)) ELSE s

RECURSIVE trimEnd(_)
trimEnd(s) ==
    IF s = <<>> THEN s
    ELSE IF IsSpace(s[Len(s)]) THEN trimEnd(SubSeq(s, 1, Len(s) - 1)) ELSE s

trim(s) == trimEnd(trimStart(s))

\* the characters of a summary, and the summaries an article may carry
Chars == {" ", "a"}
Summaries == UNION { [1..n -> Chars] : n \in 0..MaxLen }

\* the ellipsis marker, one character
Ellipsis == "..."

\* truncate(text, max)
truncate(text, max) ==
    IF text = <<>> THEN <<>>
    ELSE IF Len(text) > max
         THEN trimEnd(SubSeq(text, 1, max)) \o <<Ellipsis>>
         ELSE text

\* ------------------------------------------------------------------ state
VARIABLES
    feed,              \* the list area: what it shows
    articleCount,      \* the count label
    statusText,        \* the status line
    searchValue,       \* searchInput.value
    searchDebounce,    \* the handle kept by the search listener (0 = null)
    timeouts,          \* pending setTimeout timers: handle -> ms since armed
    autoRefreshTimer,  \* the handle kept by scheduleAutoRefresh (0 = null)
    intervals,         \* active setInterval timers (handles)
    nextHandle,        \* the handle the next setTimeout/setInterval returns
    refreshBtn,        \* [disabled, label]
    card,              \* a summary, the limit, and the summary as a card shows it
    net,               \* requests in flight, in the order they were issued
    modalOpen,         \* feedModal is not hidden
    activeTab,         \* the tab whose content section is visible
    feedUrlInput, feedNameInput, feedCatSelect,
    feedUrlStatus, submitStatus,
    siteUrlInput, siteNameInput, siteQueryInput, siteCatSelect,
    submitSiteStatus,
    checkFeedBtn, submitFeedBtn, submitSiteBtn,
    lists,             \* per registry: what its list container shows
    srv,               \* per registry: the ids the backend holds
    \* history variables (not program state)
    feedFrom,          \* id of the load whose response the list area shows
    countFrom,         \* id of the load whose response the count label shows
    lastIssued,        \* id of the most recently issued article load
    burst,             \* the current burst of search input events
    unhandled,         \* async handlers that ended in an unhandled rejection
    refreshOutcome,    \* how the last POST /api/refresh settled ("" = none yet)
    defaultTab,        \* the tab the page showed as active when it was loaded
    dirtyClose,        \* how the modal was last closed, if it then held a value
                       \* or a message ("" = never, or closed with nothing in it)
    lastPreview        \* the last preview response processed and the name
                       \* field it found

pageVars == <<feed, articleCount, statusText, searchValue, searchDebounce,
              timeouts, autoRefreshTimer, intervals, nextHandle, refreshBtn,
              card>>
fieldVars == <<feedUrlInput, feedNameInput, feedCatSelect, siteUrlInput,
               siteNameInput, siteQueryInput, siteCatSelect>>
formVars == <<modalOpen, activeTab, feedUrlStatus, submitStatus,
              submitSiteStatus, checkFeedBtn, submitFeedBtn, submitSiteBtn>>
regVars == <<lists, srv>>
histVars == <<feedFrom, countFrom, lastIssued, burst, unhandled, refreshOutcome,
              defaultTab, dirtyClose, lastPreview>>
vars == <<pageVars, fieldVars, formVars, regVars, histVars, net>>

\* ------------------------------------------------------------------ requests
\* old is history, not program state: the request of a check or of a submit
\* was in flight when the modal was last opened
Req(kind, url, kw, cont, reg, rid, id) ==
    [kind |-> kind, url |-> url, kw |-> kw, cont |-> cont, reg |-> reg,
     rid |-> rid, id |-> id, resp |-> [t |-> "sent", items |-> {}],
     old |-> FALSE]

\* the requests in flight as an open of the modal finds them
Aged(n) ==
    [j \in 1..Len(n) |->
        IF n[j].kind \in {"preview", "add"} THEN [n[j] EXCEPT !.old = TRUE]
        ELSE n[j]]

InFlight(kind) == { i \in 1..Len(net) : net[i].kind = kind }

\* a pending debounce timer will issue a load: room is kept for it
Room(n) == Len(net) + Cardinality(DOMAIN timeouts) + n <= MaxNet

FreshLoadId ==
    Min(LoadIds \ ({ net[i].id : i \in 1..Len(net) } \cup {feedFrom, countFrom}))

\* loadArticles, up to its await: the request it issues
ArticlesUrl(keyword) ==
    IF keyword # <<>> THEN <<"/api/articles?q=", keyword>> ELSE <<"/api/articles">>

ArticlesReq(keyword, cont, reg, rid) ==
    Req("articles", ArticlesUrl(keyword), keyword, cont, reg, rid, FreshLoadId)

StatusReq(cont) == Req("status", <<"/api/status">>, <<>>, cont, "", 0, 0)

RefreshReq == Req("refresh", <<"POST", "/api/refresh">>, <<>>, "refresh", "", 0, 0)

\* ------------------------------------------------------------------ rendering
CountLabel(n) == <<n, IF n # 1 THEN "articles" ELSE "article">>

\* loadArticles after its awaits: what the list area and the count label become
ArticleOutcomes ==
    { [t |-> "ok", n |-> k] : k \in 0..MaxArticles }
    \cup { [t |-> x, n |-> 0] : x \in {"http", "fail", "malformed"} }

RenderedFeed(r, o) ==
    IF o.t = "ok"
    THEN IF o.n = 0
         THEN [kind |-> "empty", n |-> 0, kw |-> r.kw, reason |-> ""]
         ELSE [kind |-> "list", n |-> o.n, kw |-> <<>>, reason |-> ""]
    ELSE [kind |-> "error", n |-> 0, kw |-> <<>>, reason |-> o.t]

\* a load that resets the count label when it fails
RenderedCount_Reset(o, old) == IF o.t = "ok" THEN CountLabel(o.n) ELSE CountLabel(0)

\* a load that renders the list and forgets the count label
RenderedCount_Stale(o, old) == old

RenderedCount(o, old) == IF o.t = "ok" THEN CountLabel(o.n) ELSE old

RenderedCountFrom(r, o, old) == IF o.t = "ok" THEN r.id ELSE old

\* updateStatus after its awaits
StatusOutcomes == {"time", "none", "http", "malformed", "fail"}

RenderedStatus(o) ==
    CASE o = "time" -> "Last updated"
      [] o \in {"none", "http"} -> "No articles fetched yet."
      [] OTHER -> "Status unavailable."

\* ------------------------------------------------------------------ timers
\* the init function has not armed the auto-refresh timer yet: a handle is kept for it
InitPending == \E i \in 1..Len(net) : net[i].cont = "init"

HandleRoom == nextHandle + (IF InitPending THEN 1 ELSE 0) <= MaxTimers

\* an input listener that arms a timer without cancelling the pending one
clearTimeout_Noop(ts, h) == ts

clearTimeout(ts, h) == [t \in DOMAIN ts \ {h} |-> ts[t]]

\* a scheduler that arms a timer without cancelling the one it armed before
clearInterval_Noop(is, h) == is

clearInterval(is, h) == is \ {h}

Resting(label) == [disabled |-> FALSE, label |-> label]
Busy(label) == [disabled |-> TRUE, label |-> label]

\* a refresh handler without its finally block
RefreshFinally_Stuck == Busy("Refreshing...")

\* the finally block of the refresh handler
RefreshFinally == Resting("Refresh")

\* the burst of input events being followed: how many events, the value of
\* the last one, the ms since it, the loads the debouncer issued for the
\* burst, and the silence before and the url of the last of them
NoBurst == [events |-> 0, lastValue |-> <<>>, quiet |-> 0, loads |-> 0,
            fireQuiet |-> 0, fireUrl |-> <<>>]

After(ms) == IF ms + TimeStep >= QuietPeriod THEN QuietPeriod ELSE ms + TimeStep

\* ------------------------------------------------------------------ initial state
\* The script has run: listeners are bound and the init function is suspended
\* at its first await, inside loadArticles().  The markup decides which tab
\* starts active; the script never sets it.
PageInit ==
    /\ feed = [kind |-> "loading", n |-> 0, kw |-> <<>>, reason |-> ""]
    /\ articleCount = <<-1, "">>
    /\ statusText = ""
    /\ searchValue = <<>>
    /\ searchDebounce = 0
    /\ timeouts = <<>>
    /\ autoRefreshTimer = 0
    /\ intervals = {}
    /\ nextHandle = 1
    /\ refreshBtn = Resting("Refresh")
    /\ net = <<Req("articles", ArticlesUrl(<<>>), <<>>, "init", "", 0, 1)>>
    /\ modalOpen = FALSE
    /\ activeTab \in Tabs
    /\ feedUrlInput = <<>>
    /\ feedNameInput = <<>>
    /\ feedCatSelect = "AI"
    /\ feedUrlStatus = ""
    /\ submitStatus = ""
    /\ siteUrlInput = <<>>
    /\ siteNameInput = <<>>
    /\ siteQueryInput = <<>>
    /\ siteCatSelect = "AI"
    /\ submitSiteStatus = ""
    /\ checkFeedBtn = Resting("Check")
    /\ submitFeedBtn = Resting("Add Feed")
    /\ submitSiteBtn = Resting("Add Website")
    /\ lists = [g \in Registries |-> [kind |-> "initial", rows |-> {}, disabled |-> {}]]
    /\ srv = [g \in Registries |-> {1}]
    /\ feedFrom = 0
    /\ countFrom = 0
    /\ lastIssued = 1
    /\ burst = NoBurst
    /\ unhandled = {}
    /\ refreshOutcome = ""
    /\ defaultTab = activeTab
    /\ dirtyClose = ""
    /\ lastPreview = [o |-> "", name |-> <<>>]

\* no card rendered
NoCard == [summary |-> <<>>, max |-> 0, rendered |-> <<>>, done |-> FALSE]

Init == PageInit /\ card = NoCard

\* the page with an article to render: any summary, any limit
CardInit ==
    /\ PageInit
    /\ card \in { [summary |-> t, max |-> m, rendered |-> <<>>, done |-> FALSE] :
                     t \in Summaries, m \in 0..MaxLimit }

\* renderCard: the summary paragraph of the card, absent for an empty summary
renderCard ==
    /\ ~card.done
    /\ card' = [card EXCEPT !.rendered = IF card.summary # <<>>
                                         THEN truncate(card.summary, card.max)
                                         ELSE <<>>,
                            !.done = TRUE]
    /\ UNCHANGED <<feed, articleCount, statusText, searchValue, searchDebounce,
                   timeouts, autoRefreshTimer, intervals, nextHandle, refreshBtn,
                   fieldVars, formVars, regVars, histVars, net>>

\* ------------------------------------------------------------------ search debouncer
\* the input listener: cancel the pending timer, arm a new one
SearchInput(v) ==
    /\ v # searchValue
    /\ \A t \in DOMAIN timeouts : timeouts[t] < QuietPeriod
    /\ HandleRoom
    /\ LET cleared == clearTimeout(timeouts, searchDebounce)
           h == nextHandle
           continues == burst.events > 0 /\ burst.quiet < QuietPeriod
       IN /\ Len(net) + Cardinality(DOMAIN cleared) + 1 <= MaxNet
          /\ searchValue' = v
          /\ timeouts' = [t \in DOMAIN cleared \cup {h} |->
                            IF t = h THEN 0 ELSE cleared[t]]
          /\ searchDebounce' = h
          /\ nextHandle' = h + 1
          /\ burst' = IF continues
                      THEN [burst EXCEPT !.events = @ + 1, !.lastValue = v,
                                         !.quiet = 0]
                      ELSE [NoBurst EXCEPT !.events = 1, !.lastValue = v]
    /\ UNCHANGED <<card, defaultTab, dirtyClose, lastPreview, feed, articleCount, statusText, autoRefreshTimer, intervals,
                   refreshBtn, net, fieldVars, formVars, regVars, feedFrom,
                   countFrom, lastIssued, unhandled, refreshOutcome>>

\* time passes; a timer that is due fires before anything else happens
Advance ==
    /\ DOMAIN timeouts # {}
    /\ \A t \in DOMAIN timeouts : timeouts[t] < QuietPeriod
    /\ timeouts' = [t \in DOMAIN timeouts |-> After(timeouts[t])]
    /\ burst' = [burst EXCEPT !.quiet = After(@)]
    /\ UNCHANGED <<card, defaultTab, dirtyClose, lastPreview, feed, articleCount, statusText, searchValue, searchDebounce,
                   autoRefreshTimer, intervals, nextHandle, refreshBtn, net,
                   fieldVars, formVars, regVars, feedFrom, countFrom, lastIssued,
                   unhandled, refreshOutcome>>

\* the timer callback: loadArticles(searchInput.value.trim())
DebounceFire(t) ==
    /\ t \in DOMAIN timeouts
    /\ timeouts[t] >= QuietPeriod
    /\ LET r == ArticlesReq(trim(searchValue), "none", "", 0)
       IN /\ net' = Append(net, r)
          /\ lastIssued' = r.id
          /\ burst' = [burst EXCEPT !.loads = @ + 1,
                                    !.fireQuiet = burst.quiet,
                                    !.fireUrl = r.url]
    /\ timeouts' = [u \in DOMAIN timeouts \ {t} |-> timeouts[u]]
    /\ UNCHANGED <<card, defaultTab, dirtyClose, lastPreview, feed, articleCount, statusText, searchValue, searchDebounce,
                   autoRefreshTimer, intervals, nextHandle, refreshBtn, fieldVars,
                   formVars, regVars, feedFrom, countFrom, unhandled, refreshOutcome>>

\* ------------------------------------------------------------------ auto-refresh
\* scheduleAutoRefresh: the timers and the handle it leaves
scheduleAutoRefresh ==
    LET cleared == clearInterval(intervals, autoRefreshTimer)
        h == nextHandle
    IN /\ nextHandle <= MaxTimers
       /\ intervals' = cleared \cup {h}
       /\ autoRefreshTimer' = h
       /\ nextHandle' = h + 1

\* scheduleAutoRefresh() called once more: the init function calls it once;
\* its contract is about any number of calls
StartAgain ==
    /\ HandleRoom
    /\ scheduleAutoRefresh
    /\ UNCHANGED <<card, feed, articleCount, statusText, searchValue, searchDebounce,
                   timeouts, refreshBtn, net, fieldVars, formVars, regVars,
                   histVars>>

\* a tick that is skipped while an earlier tick has not finished
Tick_Blocking(h) ==
    /\ h \in intervals
    /\ Room(1)
    /\ \A i \in 1..Len(net) : net[i].cont # "tick"
    /\ LET r == ArticlesReq(trim(searchValue), "tick", "", 0)
       IN /\ net' = Append(net, r)
          /\ lastIssued' = r.id
    /\ UNCHANGED <<defaultTab, dirtyClose, lastPreview, pageVars, fieldVars,
                   formVars, regVars, feedFrom, countFrom, burst, unhandled,
                   refreshOutcome>>

\* a tick of the interval: the callback up to its first await
Tick(h) ==
    /\ h \in intervals
    /\ Room(1)
    /\ LET r == ArticlesReq(trim(searchValue), "tick", "", 0)
       IN /\ net' = Append(net, r)
          /\ lastIssued' = r.id
    /\ UNCHANGED <<defaultTab, dirtyClose, lastPreview, pageVars, fieldVars, formVars, regVars, feedFrom, countFrom,
                   burst, unhandled, refreshOutcome>>

\* ------------------------------------------------------------------ manual refresh
ClickRefresh ==
    /\ ~refreshBtn.disabled
    /\ Room(1)
    /\ refreshBtn' = Busy("Refreshing...")
    /\ statusText' = "Fetching latest articles..."
    /\ net' = Append(net, RefreshReq)
    /\ refreshOutcome' = ""
    /\ UNCHANGED <<card, defaultTab, dirtyClose, lastPreview, feed, articleCount, searchValue, searchDebounce, timeouts,
                   autoRefreshTimer, intervals, nextHandle, fieldVars, formVars,
                   regVars, feedFrom, countFrom, lastIssued, burst, unhandled>>

\* fetch() rejects on a transport failure only; an HTTP error status resolves
FetchRejects(o) == o = "fail"

\* POST /api/refresh settles: the handler runs on to its next await or its end
RefreshSettles(i, o) ==
    /\ i \in InFlight("refresh")
    /\ IF FetchRejects(o)
       THEN /\ statusText' = "Refresh failed"
            /\ refreshBtn' = RefreshFinally
            /\ net' = RemoveAt(net, i)
            /\ UNCHANGED lastIssued
       ELSE LET rest == RemoveAt(net, i)
                r == ArticlesReq(trim(searchValue), "refresh", "", 0)
            IN /\ net' = Append(rest, r)
               /\ lastIssued' = r.id
               /\ UNCHANGED <<statusText, refreshBtn>>
    /\ refreshOutcome' = o
    /\ UNCHANGED <<card, defaultTab, dirtyClose, lastPreview, feed, articleCount, searchValue, searchDebounce, timeouts,
                   autoRefreshTimer, intervals, nextHandle, fieldVars, formVars,
                   regVars, feedFrom, countFrom, burst, unhandled>>

\* ------------------------------------------------------------------ loadArticles
\* the response of an article load is processed, then the caller that awaited
\* loadArticles() runs on to its next await or its end
ArticlesSettle(i, o) ==
    /\ i \in InFlight("articles")
    /\ LET r == net[i]
           rest == RemoveAt(net, i)
       IN /\ feed' = RenderedFeed(r, o)
          /\ articleCount' = RenderedCount(o, articleCount)
          /\ feedFrom' = r.id
          /\ countFrom' = RenderedCountFrom(r, o, countFrom)
          /\ net' = IF r.cont \in {"init", "refresh", "tick"}
                    THEN Append(rest, StatusReq(r.cont))
                    ELSE rest
          /\ submitFeedBtn' = IF r.cont = "subFeed"
                              THEN Resting("Add Feed") ELSE submitFeedBtn
          /\ submitSiteBtn' = IF r.cont = "subSite"
                              THEN Resting("Add Website") ELSE submitSiteBtn
    /\ UNCHANGED <<card, defaultTab, dirtyClose, lastPreview, statusText, searchValue, searchDebounce, timeouts,
                   autoRefreshTimer, intervals, nextHandle, refreshBtn, fieldVars,
                   modalOpen, activeTab, feedUrlStatus, submitStatus,
                   submitSiteStatus, checkFeedBtn, regVars, lastIssued, burst,
                   unhandled, refreshOutcome>>

\* ------------------------------------------------------------------ updateStatus
StatusSettles(i, o) ==
    /\ i \in InFlight("status")
    /\ LET r == net[i]
       IN /\ statusText' = RenderedStatus(o)
          /\ net' = RemoveAt(net, i)
          /\ IF r.cont = "init"
             THEN scheduleAutoRefresh
             ELSE UNCHANGED <<intervals, autoRefreshTimer, nextHandle>>
          /\ refreshBtn' = IF r.cont = "refresh" THEN RefreshFinally ELSE refreshBtn
    /\ UNCHANGED <<card, feed, articleCount, searchValue, searchDebounce, timeouts,
                   fieldVars, formVars, regVars, histVars>>

\* ------------------------------------------------------------------ add-source modal
ListReq(reg, cont, rid) == Req("list", <<"GET", reg>>, <<>>, cont, reg, rid, 0)

\* the loading placeholder loadCustomFeeds/loadScrapedSites show first
Loading == [kind |-> "loading", rows |-> {}, disabled |-> {}]

\* an open that loads the registry of the visible tab only
OpenLoads_ActiveOnly ==
    <<ListReq(IF activeTab = "feed" THEN "feeds" ELSE "sites", "none", 0)>>

\* the loads openModal starts: loadCustomFeeds(), loadScrapedSites()
OpenLoads == <<ListReq("feeds", "none", 0), ListReq("sites", "none", 0)>>

\* an open that shows the modal as it was left
OpenModal_Show ==
    /\ ~modalOpen
    /\ Room(2)
    /\ modalOpen' = TRUE
    /\ lists' = [g \in Registries |-> Loading]
    /\ net' = Aged(net) \o OpenLoads
    /\ UNCHANGED <<pageVars, fieldVars, activeTab, feedUrlStatus, submitStatus,
                   submitSiteStatus, checkFeedBtn, submitFeedBtn, submitSiteBtn,
                   srv, histVars>>

\* openModal(), with room for cap requests in flight
OpenModalAt(cap) ==
    /\ ~modalOpen
    /\ Len(net) + Cardinality(DOMAIN timeouts) + 2 <= cap
    /\ modalOpen' = TRUE
    /\ feedUrlInput' = <<>>
    /\ feedNameInput' = <<>>
    /\ feedUrlStatus' = ""
    /\ submitStatus' = ""
    /\ siteUrlInput' = <<>>
    /\ siteNameInput' = <<>>
    /\ siteQueryInput' = <<>>
    /\ submitSiteStatus' = ""
    /\ lists' = [g \in Registries |-> Loading]
    /\ net' = Aged(net) \o OpenLoads
    /\ UNCHANGED <<pageVars, activeTab, feedCatSelect, siteCatSelect, checkFeedBtn,
                   submitFeedBtn, submitSiteBtn, srv, histVars>>

\* addFeedBtn click: openModal()
OpenModal == OpenModalAt(MaxNet)

\* a text field holds a value or a status line a message
Dirty ==
    \/ \E f \in {feedUrlInput, feedNameInput, siteUrlInput, siteNameInput,
                  siteQueryInput} : f # <<>>
    \/ \E m \in {feedUrlStatus, submitStatus, submitSiteStatus} : m # ""

\* modalClose click, backdrop click, Escape key: closeModal()
CloseModal(how) ==
    /\ how \in {"control", "backdrop", "escape"}
    /\ modalOpen
    /\ modalOpen' = FALSE
    /\ dirtyClose' = IF Dirty THEN how ELSE ""
    /\ UNCHANGED <<pageVars, fieldVars, activeTab, feedUrlStatus, submitStatus,
                   submitSiteStatus, checkFeedBtn, submitFeedBtn, submitSiteBtn,
                   regVars, feedFrom, countFrom, lastIssued, burst, unhandled,
                   refreshOutcome, defaultTab, lastPreview, net>>

\* a tab switch that resets the form of the tab it leaves
SwitchTab_Resets(t) ==
    /\ modalOpen
    /\ t # activeTab
    /\ activeTab' = t
    /\ feedUrlInput' = IF t = "site" THEN <<>> ELSE feedUrlInput
    /\ feedNameInput' = IF t = "site" THEN <<>> ELSE feedNameInput
    /\ siteUrlInput' = IF t = "feed" THEN <<>> ELSE siteUrlInput
    /\ siteNameInput' = IF t = "feed" THEN <<>> ELSE siteNameInput
    /\ siteQueryInput' = IF t = "feed" THEN <<>> ELSE siteQueryInput
    /\ UNCHANGED <<pageVars, feedCatSelect, siteCatSelect, modalOpen,
                   feedUrlStatus, submitStatus, submitSiteStatus, checkFeedBtn,
                   submitFeedBtn, submitSiteBtn, regVars, histVars, net>>

\* a .modal-tab click
SwitchTab(t) ==
    /\ modalOpen
    /\ t # activeTab
    /\ activeTab' = t
    /\ UNCHANGED <<pageVars, fieldVars, modalOpen, feedUrlStatus, submitStatus,
                   submitSiteStatus, checkFeedBtn, submitFeedBtn, submitSiteBtn,
                   regVars, histVars, net>>

\* the user edits a field of the visible tab
EditFeedUrl(v) ==
    /\ modalOpen /\ activeTab = "feed" /\ v # feedUrlInput
    /\ feedUrlInput' = v
    /\ UNCHANGED <<pageVars, feedNameInput, feedCatSelect, siteUrlInput,
                   siteNameInput, siteQueryInput, siteCatSelect, formVars,
                   regVars, histVars, net>>

EditFeedName(v) ==
    /\ modalOpen /\ activeTab = "feed" /\ v # feedNameInput
    /\ feedNameInput' = v
    /\ UNCHANGED <<pageVars, feedUrlInput, feedCatSelect, siteUrlInput,
                   siteNameInput, siteQueryInput, siteCatSelect, formVars,
                   regVars, histVars, net>>

EditSiteUrl(v) ==
    /\ modalOpen /\ activeTab = "site" /\ v # siteUrlInput
    /\ siteUrlInput' = v
    /\ UNCHANGED <<pageVars, feedUrlInput, feedNameInput, feedCatSelect,
                   siteNameInput, siteQueryInput, siteCatSelect, formVars,
                   regVars, histVars, net>>

EditSiteName(v) ==
    /\ modalOpen /\ activeTab = "site" /\ v # siteNameInput
    /\ siteNameInput' = v
    /\ UNCHANGED <<pageVars, feedUrlInput, feedNameInput, feedCatSelect,
                   siteUrlInput, siteQueryInput, siteCatSelect, formVars,
                   regVars, histVars, net>>

EditSiteQuery(v) ==
    /\ modalOpen /\ activeTab = "site" /\ v # siteQueryInput
    /\ siteQueryInput' = v
    /\ UNCHANGED <<pageVars, feedUrlInput, feedNameInput, feedCatSelect,
                   siteUrlInput, siteNameInput, siteCatSelect, formVars,
                   regVars, histVars, net>>

\* ------------------------------------------------------------------ the backend
\* the backend handles a registry request: it answers from, and changes, its
\* own state; the response then travels back
ServerHandles(i) ==
    /\ i \in 1..Len(net)
    /\ net[i].kind \in {"list", "delete", "add"}
    /\ net[i].resp.t = "sent"
    /\ LET r == net[i]
           free == Ids \ srv[r.reg]
       IN CASE r.kind = "list" ->
                 /\ net' = [net EXCEPT ![i].resp = [t |-> "ok", items |-> srv[r.reg]]]
                 /\ UNCHANGED srv
            [] r.kind = "delete" ->
                 \* the source is removed, or a non-success status comes
                 \* back: the id is gone already, or the backend fails
                 \/ /\ r.rid \in srv[r.reg]
                    /\ srv' = [srv EXCEPT ![r.reg] = @ \ {r.rid}]
                    /\ net' = [net EXCEPT ![i].resp = [t |-> "ok", items |-> {}]]
                 \/ /\ net' = [net EXCEPT ![i].resp = [t |-> "http", items |-> {}]]
                    /\ UNCHANGED srv
            [] r.kind = "add" ->
                 \/ /\ free # {}
                    /\ srv' = [srv EXCEPT ![r.reg] = @ \cup {Min(free)}]
                    /\ net' = [net EXCEPT ![i].resp = [t |-> "ok", items |-> {}]]
                 \/ /\ net' = [net EXCEPT ![i].resp = [t |-> "http", items |-> {}]]
                    /\ UNCHANGED srv
    /\ UNCHANGED <<pageVars, fieldVars, formVars, lists, histVars>>

\* how a request in flight may settle: with the backend's response once it
\* has one, or with a failure on the way
Outcomes(r, failures) ==
    (IF r.resp.t = "sent" THEN {} ELSE {r.resp})
    \cup { [t |-> x, items |-> {}] : x \in failures }

\* ------------------------------------------------------------------ registries
\* loadCustomFeeds / loadScrapedSites after their awaits: what the list shows
RenderedList(o) ==
    CASE o.t = "ok" /\ o.items # {} ->
             [kind |-> "rows", rows |-> o.items, disabled |-> {}]
      [] o.t \in {"ok", "http"} -> [kind |-> "empty", rows |-> {}, disabled |-> {}]
      [] OTHER -> [kind |-> "error", rows |-> {}, disabled |-> {}]

\* the response of a list request is processed, then the handler that awaited
\* the reload (a delete or a submit) runs on to loadArticles()
ListSettles(reg, i, o) ==
    /\ i \in InFlight("list")
    /\ net[i].reg = reg
    /\ o \in Outcomes(net[i], {"http", "malformed", "fail"})
    /\ LET r == net[i]
           rest == RemoveAt(net, i)
           a == ArticlesReq(trim(searchValue), r.cont, r.reg, r.rid)
       IN /\ lists' = [lists EXCEPT ![reg] = RenderedList(o)]
          /\ IF r.cont = "none"
             THEN /\ net' = rest
                  /\ UNCHANGED lastIssued
             ELSE /\ net' = Append(rest, a)
                  /\ lastIssued' = a.id
    /\ UNCHANGED <<defaultTab, dirtyClose, lastPreview, pageVars, fieldVars, formVars, srv, feedFrom, countFrom,
                   burst, unhandled, refreshOutcome>>

loadCustomFeedsSettles(i, o) == ListSettles("feeds", i, o)

loadScrapedSitesSettles(i, o) == ListSettles("sites", i, o)

TabOf(reg) == IF reg = "feeds" THEN "feed" ELSE "site"

\* a .delete-feed-btn click in a rendered row
ClickDelete(reg, id) ==
    /\ modalOpen
    /\ activeTab = TabOf(reg)
    /\ id \in lists[reg].rows \ lists[reg].disabled
    /\ Room(1)
    /\ lists' = [lists EXCEPT ![reg].disabled = @ \cup {id}]
    /\ net' = Append(net, Req("delete", <<"DELETE", reg, id>>, <<>>, "delete",
                              reg, id, 0))
    /\ UNCHANGED <<pageVars, fieldVars, formVars, srv, histVars>>

\* the DELETE request settles: the handler runs on to the list reload, or
\* ends in a rejection nothing catches
DeleteSettles(i, o) ==
    /\ i \in InFlight("delete")
    /\ o \in Outcomes(net[i], {"fail"})
    /\ LET r == net[i]
           rest == RemoveAt(net, i)
       IN IF FetchRejects(o.t)
          THEN /\ unhandled' = unhandled \cup {<<"delete", r.reg>>}
               /\ net' = rest
               /\ UNCHANGED lists
          ELSE /\ lists' = [lists EXCEPT ![r.reg] = Loading]
               /\ net' = Append(rest, ListReq(r.reg, "delete", r.rid))
               /\ UNCHANGED unhandled
    /\ UNCHANGED <<defaultTab, dirtyClose, lastPreview, pageVars, fieldVars, formVars, srv, feedFrom, countFrom,
                   lastIssued, burst, refreshOutcome>>

\* ------------------------------------------------------------------ check
\* a validation that forgets to trim
EmptyUrl_NoTrim(v) == v = <<>>

\* the local validation of the url field: empty after trimming
EmptyUrl(v) == trim(v) = <<>>

ClickCheck ==
    /\ modalOpen
    /\ activeTab = "feed"
    /\ ~checkFeedBtn.disabled
    /\ IF EmptyUrl(feedUrlInput)
       THEN UNCHANGED <<checkFeedBtn, feedUrlStatus, net>>
       ELSE /\ Room(1)
            /\ checkFeedBtn' = Busy("Check")
            /\ feedUrlStatus' = "Checking..."
            /\ net' = Append(net, Req("preview", <<"GET", "preview", trim(feedUrlInput)>>,
                                      <<>>, "check", "feeds", 0, 0))
    /\ UNCHANGED <<pageVars, fieldVars, modalOpen, activeTab, submitStatus,
                   submitSiteStatus, submitFeedBtn, submitSiteBtn, regVars,
                   histVars>>

PreviewOutcomes == {"title", "notitle", "http", "malformed", "fail"}

\* the title the server suggests for the feed
SuggestedTitle == <<"t">>

\* a check that fills the name in whenever the server suggests a title
AutoFilledName_Overwrite(o, name) == IF o = "title" THEN SuggestedTitle ELSE name

\* if (data.title && !feedNameInput.value) feedNameInput.value = data.title
AutoFilledName(o, name) ==
    IF o = "title" /\ name = <<>> THEN SuggestedTitle ELSE name

PreviewSettles(i, o) ==
    /\ i \in InFlight("preview")
    /\ IF o \in {"title", "notitle"}
       THEN /\ feedUrlStatus' = "Valid feed"
            /\ feedNameInput' = AutoFilledName(o, feedNameInput)
       ELSE /\ feedUrlStatus' = "error"
            /\ UNCHANGED feedNameInput
    /\ checkFeedBtn' = Resting("Check")
    /\ net' = RemoveAt(net, i)
    /\ lastPreview' = [o |-> o, name |-> feedNameInput]
    /\ UNCHANGED <<pageVars, feedUrlInput, feedCatSelect, siteUrlInput,
                   siteNameInput, siteQueryInput, siteCatSelect, modalOpen,
                   activeTab, submitStatus, submitSiteStatus, submitFeedBtn,
                   submitSiteBtn, regVars, feedFrom, countFrom, lastIssued, burst,
                   unhandled, refreshOutcome, defaultTab, dirtyClose>>

\* ------------------------------------------------------------------ submit
AddReq(reg, cont) == Req("add", <<"POST", reg>>, <<>>, cont, reg, 0, 0)

ClickSubmitFeed ==
    /\ modalOpen
    /\ activeTab = "feed"
    /\ ~submitFeedBtn.disabled
    /\ IF EmptyUrl(feedUrlInput)
       THEN /\ submitStatus' = "Please enter a URL."
            /\ UNCHANGED <<submitFeedBtn, net>>
       ELSE /\ Room(1)
            /\ submitFeedBtn' = Busy("Adding...")
            /\ submitStatus' = ""
            /\ net' = Append(net, AddReq("feeds", "subFeed"))
    /\ UNCHANGED <<pageVars, fieldVars, modalOpen, activeTab, feedUrlStatus,
                   submitSiteStatus, checkFeedBtn, submitSiteBtn, regVars,
                   histVars>>

ClickSubmitSite ==
    /\ modalOpen
    /\ activeTab = "site"
    /\ ~submitSiteBtn.disabled
    /\ IF EmptyUrl(siteUrlInput)
       THEN /\ submitSiteStatus' = "Please enter a URL."
            /\ UNCHANGED <<submitSiteBtn, net>>
       ELSE /\ Room(1)
            /\ submitSiteBtn' = Busy("Scraping...")
            /\ submitSiteStatus' = "Contacting Tavily AI..."
            /\ net' = Append(net, AddReq("sites", "subSite"))
    /\ UNCHANGED <<pageVars, fieldVars, modalOpen, activeTab, feedUrlStatus,
                   submitStatus, checkFeedBtn, submitFeedBtn, regVars, histVars>>

\* the status text of a failed submit: the message of the caught error, which
\* is the reason the server gave (data.error), or the failure of the
\* transport or of the parse of the body
FailureStatus(o) ==
    CASE o.t = "http" -> "x data.error"
      [] o.t = "fail" -> "x Failed to fetch"
      [] OTHER -> "x Unexpected token"

\* a submit that clears its fields whether the add succeeded or not
FieldAfterAdd_Clear(o, v) == <<>>

\* a submit that never clears its fields
FieldAfterAdd_Keep(o, v) == v

\* a text field of the form once the add request has settled
FieldAfterAdd(o, v) == IF o.t = "ok" THEN <<>> ELSE v

\* POST /api/feeds settles
AddFeedSettles(i, o) ==
    /\ i \in InFlight("add")
    /\ net[i].reg = "feeds"
    /\ o \in Outcomes(net[i], {"malformed", "fail"})
    /\ feedUrlInput' = FieldAfterAdd(o, feedUrlInput)
    /\ feedNameInput' = FieldAfterAdd(o, feedNameInput)
    /\ LET rest == RemoveAt(net, i)
       IN IF o.t = "ok"
          THEN /\ submitStatus' = "Added"
               /\ feedUrlStatus' = ""
               /\ lists' = [lists EXCEPT !["feeds"] = Loading]
               /\ net' = Append(rest, ListReq("feeds", "subFeed", 0))
               /\ UNCHANGED submitFeedBtn
          ELSE /\ submitStatus' = FailureStatus(o)
               /\ submitFeedBtn' = Resting("Add Feed")
               /\ net' = rest
               /\ UNCHANGED <<feedUrlStatus, lists>>
    /\ UNCHANGED <<pageVars, feedCatSelect, siteUrlInput, siteNameInput,
                   siteQueryInput, siteCatSelect, modalOpen, activeTab,
                   submitSiteStatus, checkFeedBtn, submitSiteBtn, srv, histVars>>

\* POST /api/sites settles
AddSiteSettles(i, o) ==
    /\ i \in InFlight("add")
    /\ net[i].reg = "sites"
    /\ o \in Outcomes(net[i], {"malformed", "fail"})
    /\ siteUrlInput' = FieldAfterAdd(o, siteUrlInput)
    /\ siteNameInput' = FieldAfterAdd(o, siteNameInput)
    /\ siteQueryInput' = FieldAfterAdd(o, siteQueryInput)
    /\ LET rest == RemoveAt(net, i)
       IN IF o.t = "ok"
          THEN /\ submitSiteStatus' = "Added"
               /\ lists' = [lists EXCEPT !["sites"] = Loading]
               /\ net' = Append(rest, ListReq("sites", "subSite", 0))
               /\ UNCHANGED submitSiteBtn
          ELSE /\ submitSiteStatus' = FailureStatus(o)
               /\ submitSiteBtn' = Resting("Add Website")
               /\ net' = rest
               /\ UNCHANGED lists
    /\ UNCHANGED <<pageVars, feedUrlInput, feedNameInput, feedCatSelect,
                   siteCatSelect, modalOpen, activeTab, feedUrlStatus,
                   submitStatus, checkFeedBtn, submitFeedBtn, srv, histVars>>

\* ------------------------------------------------------------------ specifications
AllOutcomes == { [t |-> x, items |-> S] : x \in {"ok", "http", "malformed", "fail"},
                                          S \in SUBSET Ids }

FewOutcomes == { o \in AllOutcomes : o.t \in {"ok", "fail"} }

\* an add request succeeds, or fails by its status or on the way
AddOutcomes == { o \in AllOutcomes : o.t \in {"ok", "http", "fail"} }

\* the page's own loads, followed through their success only
PageLoads ==
    \/ \E i \in 1..MaxNet : ArticlesSettle(i, [t |-> "ok", n |-> 1])
    \/ \E i \in 1..MaxNet : StatusSettles(i, "time")

NetSettles ==
    \/ \E i \in 1..MaxNet, o \in ArticleOutcomes : ArticlesSettle(i, o)
    \/ \E i \in 1..MaxNet, o \in StatusOutcomes : StatusSettles(i, o)

\* the specifications of the modal and of the ticks follow the article list
\* and the status line through one success and one failure only
FewNetSettles ==
    \/ \E i \in 1..MaxNet, o \in {[t |-> "ok", n |-> 1], [t |-> "fail", n |-> 0]} :
          ArticlesSettle(i, o)
    \/ \E i \in 1..MaxNet : StatusSettles(i, "time")

SearchNext ==
    \/ \E v \in SearchValues : SearchInput(v)
    \/ Advance
    \/ \E t \in 1..MaxTimers : DebounceFire(t)
    \/ NetSettles

RefreshNext ==
    \/ ClickRefresh
    \/ \E i \in 1..MaxNet, o \in {"ok", "http", "fail"} : RefreshSettles(i, o)
    \/ NetSettles

SchedNext ==
    \/ StartAgain
    \/ \E h \in 1..MaxTimers : Tick(h)
    \/ NetSettles

RegistryNext ==
    \/ OpenModal
    \/ \E how \in {"control", "backdrop", "escape"} : CloseModal(how)
    \/ \E g \in Registries, id \in Ids : ClickDelete(g, id)
    \/ \E i \in 1..MaxNet : ServerHandles(i)
    \/ \E i \in 1..MaxNet, o \in AllOutcomes : DeleteSettles(i, o)
    \/ \E i \in 1..MaxNet, o \in AllOutcomes : loadCustomFeedsSettles(i, o)
    \/ \E i \in 1..MaxNet, o \in AllOutcomes : loadScrapedSitesSettles(i, o)
    \/ FewNetSettles

FormNext ==
    \/ OpenModal
    \/ \E v \in UrlValues : EditFeedUrl(v)
    \/ \E v \in NameValues : EditFeedName(v)
    \/ \E v \in UrlValues : EditSiteUrl(v)
    \/ \E v \in NameValues : EditSiteName(v)
    \/ \E v \in NameValues : EditSiteQuery(v)
    \/ ClickSubmitFeed
    \/ ClickSubmitSite
    \/ \E i \in 1..MaxNet : ServerHandles(i)
    \/ \E i \in 1..MaxNet, o \in AddOutcomes : AddFeedSettles(i, o)
    \/ \E i \in 1..MaxNet, o \in AddOutcomes : AddSiteSettles(i, o)
    \/ \E i \in 1..MaxNet, o \in FewOutcomes : loadCustomFeedsSettles(i, o)
    \/ \E i \in 1..MaxNet, o \in FewOutcomes : loadScrapedSitesSettles(i, o)
    \/ PageLoads

Next ==
    \/ SearchNext
    \/ RefreshNext
    \/ SchedNext
    \/ RegistryNext
    \/ FormNext
    \/ \E t \in Tabs : SwitchTab(t)
    \/ ClickCheck
    \/ \E i \in 1..MaxNet, o \in PreviewOutcomes : PreviewSettles(i, o)

\* the check of a feed url, in the modal as it was opened
CheckNext ==
    \/ OpenModal
    \/ \E v \in UrlValues : EditFeedUrl(v)
    \/ \E v \in NameValues : EditFeedName(v)
    \/ ClickCheck
    \/ \E i \in 1..MaxNet, o \in PreviewOutcomes : PreviewSettles(i, o)
    \/ \E i \in 1..MaxNet : ServerHandles(i)
    \/ \E i \in 1..MaxNet, o \in FewOutcomes : loadCustomFeedsSettles(i, o)
    \/ \E i \in 1..MaxNet, o \in FewOutcomes : loadScrapedSitesSettles(i, o)
    \/ FewNetSettles

\* a submit click on a form whose url field is empty
SubmitWithoutUrl ==
    \/ ClickSubmitFeed /\ EmptyUrl(feedUrlInput)
    \/ ClickSubmitSite /\ EmptyUrl(siteUrlInput)

\* the life of the modal: opened, filled in, switched, closed, opened again
ModalNext ==
    \/ OpenModal
    \/ \E how \in {"control", "backdrop", "escape"} : CloseModal(how)
    \/ \E t \in Tabs : SwitchTab(t)
    \/ \E v \in UrlValues : EditFeedUrl(v)
    \/ SubmitWithoutUrl
    \/ ClickCheck
    \/ \E i \in 1..MaxNet, o \in {"notitle", "fail"} : PreviewSettles(i, o)
    \/ \E i \in 1..MaxNet : ServerHandles(i)
    \/ \E i \in 1..MaxNet, o \in FewOutcomes : loadCustomFeedsSettles(i, o)
    \/ \E i \in 1..MaxNet, o \in FewOutcomes : loadScrapedSitesSettles(i, o)
    \/ PageLoads

\* the auto-refresh ticking while the user searches
TickNext ==
    \/ SearchInput(<<" ", "a", " ">>)
    \/ Advance
    \/ \E t \in 1..MaxTimers : DebounceFire(t)
    \/ \E h \in 1..MaxTimers : Tick(h)
    \/ FewNetSettles

\* the rendering of one card
CardNext == renderCard

\* the modal reopened while a check or a submit of the session before is in
\* flight: the reopen's two list loads come on top of that request
StaleCap == MaxNet + 1

StaleNext ==
    \/ OpenModalAt(StaleCap)
    \/ \E how \in {"control", "backdrop", "escape"} : CloseModal(how)
    \/ \E v \in UrlValues : EditFeedUrl(v)
    \/ ClickCheck
    \/ \E i \in 1..StaleCap, o \in {"title", "fail"} : PreviewSettles(i, o)
    \/ ClickSubmitFeed
    \/ \E i \in 1..StaleCap : ServerHandles(i)
    \/ \E i \in 1..StaleCap, o \in AddOutcomes : AddFeedSettles(i, o)
    \/ \E i \in 1..StaleCap, o \in FewOutcomes : loadCustomFeedsSettles(i, o)
    \/ \E i \in 1..StaleCap, o \in FewOutcomes : loadScrapedSitesSettles(i, o)
    \/ PageLoads

\* a mutation request comes back with the backend's answer
Answers == { o \in AllOutcomes : o.t \in {"ok", "http"} }

\* a list request comes back with the list
Listed == { o \in AllOutcomes : o.t = "ok" }

\* mutations of one registry that overlap: a delete and an add of feeds, each
\* answered by the backend and each followed by its reload of the list, with
\* no request lost on the way
RaceNext ==
    \/ OpenModal
    \/ \E v \in UrlValues : EditFeedUrl(v)
    \/ ClickSubmitFeed
    \/ \E id \in Ids : ClickDelete("feeds", id)
    \/ \E i \in 1..MaxNet : ServerHandles(i)
    \/ \E i \in 1..MaxNet, o \in Answers : DeleteSettles(i, o)
    \/ \E i \in 1..MaxNet, o \in Answers : AddFeedSettles(i, o)
    \/ \E i \in 1..MaxNet, o \in Listed : loadCustomFeedsSettles(i, o)
    \/ \E i \in 1..MaxNet, o \in Listed : loadScrapedSitesSettles(i, o)
    \/ PageLoads

Spec == Init /\ [][Next]_vars
SearchSpec == Init /\ [][SearchNext]_vars
RefreshSpec == Init /\ [][RefreshNext]_vars
RegistrySpec == Init /\ [][RegistryNext]_vars
FormSpec == Init /\ [][FormNext]_vars
SchedSpec == Init /\ [][SchedNext]_vars
CheckSpec == Init /\ [][CheckNext]_vars
ModalSpec == Init /\ [][ModalNext]_vars
TickSpec == Init /\ [][TickNext]_vars
CardSpec == CardInit /\ [][CardNext]_vars
StaleSpec == Init /\ [][StaleNext]_vars
RaceSpec == Init /\ [][RaceNext]_vars

\* every request in flight completes or fails
RefreshFairSpec ==
    /\ RefreshSpec
    /\ WF_vars(\E i \in 1..MaxNet, o \in {"ok", "http", "fail"} : RefreshSettles(i, o))
    /\ WF_vars(\E i \in 1..MaxNet, o \in ArticleOutcomes : ArticlesSettle(i, o))
    /\ WF_vars(\E i \in 1..MaxNet, o \in StatusOutcomes : StatusSettles(i, o))

\* ------------------------------------------------------------------ claims
\* a text without its leading and trailing spaces, said without recursion
Stripped(s) ==
    LET I == { i \in 1..Len(s) : s[i] # " " }
    IN IF I = {} THEN <<>> ELSE SubSeq(s, Min(I), Max(I))

Running(cont) == \E i \in 1..Len(net) : net[i].cont = cont

DeleteRunning(reg, id) ==
    \E i \in 1..Len(net) :
        net[i].cont = "delete" /\ net[i].reg = reg /\ net[i].rid = id

\* the user can activate the delete control of row id
CanDelete(reg, id) ==
    /\ modalOpen
    /\ activeTab = TabOf(reg)
    /\ id \in lists[reg].rows \ lists[reg].disabled

\* C1: once no article load is in flight, the list area shows the response
\* of the most recently issued load; a response of an older load is discarded.
C1_LatestLoadWins ==
    InFlight("articles") = {} => feedFrom = lastIssued

\* C2 as stated: the list area and the count label never show the outcomes
\* of two different responses.
C2_SameResponseAlways ==
    (feedFrom # 0 /\ countFrom # 0) => feedFrom = countFrom

\* C2, amended: whenever the list area shows a loaded result (cards or the
\* empty placeholder), the count label comes from that same response and
\* counts what the list shows; when it shows a load's error, the count label
\* is not from that load.
C2_ListAndCountAgree ==
    /\ feed.kind \in {"list", "empty"} =>
          /\ countFrom = feedFrom
          /\ articleCount = <<feed.n, IF feed.n = 1 THEN "article" ELSE "articles">>
    /\ feed.kind = "error" => countFrom # feedFrom

C2_Witness ==
    /\ feed.kind = "list"
    /\ feedFrom = countFrom
    /\ feedFrom # 1
    /\ InFlight("articles") # {}

\* C3: a burst of input events, each less than the quiet period after the
\* one before, gets exactly one load from the debouncer: none while the
\* timer is pending, one once it has fired, issued after a full quiet period
\* since the last event and for the last event's trimmed keyword (no keyword,
\* hence the unfiltered url, when that is empty).
C3_Debounce ==
    /\ Cardinality(DOMAIN timeouts) <= 1
    /\ DOMAIN timeouts # {} => (burst.events > 0 /\ burst.loads = 0)
    /\ (burst.events > 0 /\ DOMAIN timeouts = {}) => burst.loads = 1
    /\ burst.loads = 1 =>
          /\ burst.fireQuiet >= QuietPeriod
          /\ burst.fireUrl = IF Stripped(burst.lastValue) = <<>>
                             THEN <<"/api/articles">>
                             ELSE <<"/api/articles?q=", Stripped(burst.lastValue)>>

C3_Witness ==
    /\ burst.events >= 2
    /\ burst.loads = 1
    /\ burst.lastValue = <<" ", "a", " ">>

\* C4: at most one auto-refresh interval timer is active, and it is the one
\* whose handle the scheduler holds, however many times it was started.
C4_OneTimer ==
    /\ Cardinality(intervals) <= 1
    /\ intervals = IF autoRefreshTimer = 0 THEN {} ELSE {autoRefreshTimer}

C4_Witness ==
    /\ autoRefreshTimer >= 2
    /\ intervals = {autoRefreshTimer}

\* C5: while an operation of a trigger is in progress, the user has no
\* enabled control that starts the same operation.
C5_OneInstancePerTrigger ==
    /\ Running("refresh") => refreshBtn.disabled
    /\ Running("check") => checkFeedBtn.disabled
    /\ Running("subFeed") => submitFeedBtn.disabled
    /\ Running("subSite") => submitSiteBtn.disabled
    /\ \A g \in Registries, id \in Ids : DeleteRunning(g, id) => ~CanDelete(g, id)

\* C6: when POST /api/refresh fails, by a transport failure or a non-success
\* status, that refresh issues neither the article reload nor the status
\* refresh, and the status line shows the failure.
C6_FailedRefreshStops ==
    [][ \A i \in 1..MaxNet, o \in {"http", "fail"} :
          RefreshSettles(i, o) =>
             /\ ~\E j \in 1..Len(net') : net'[j].cont = "refresh"
             /\ statusText' = "Refresh failed" ]_vars

\* C7: the refresh trigger is disabled with its busy label exactly while a
\* refresh is in progress, and every refresh that starts ends, with the
\* trigger enabled and its resting label back.
C7_RefreshRestored ==
    /\ [](Running("refresh") => refreshBtn = Busy("Refreshing..."))
    /\ [](~Running("refresh") => refreshBtn = Resting("Refresh"))
    /\ (Running("refresh") ~> ~Running("refresh"))

C7_Witness ==
    /\ refreshOutcome = "ok"
    /\ ~Running("refresh")
    /\ feed.kind = "error"
    /\ statusText = "Status unavailable."
    /\ refreshBtn = Resting("Refresh")

\* C8: when a DELETE request ends, in whatever way, no failure escapes the
\* delete handler and the registry's list() is re-run (the article load
\* follows it).
C8_DeleteAlwaysReloads ==
    [][ \A i \in 1..MaxNet, o \in AllOutcomes :
          DeleteSettles(i, o) =>
             /\ unhandled' = unhandled
             /\ \E j \in 1..Len(net') :
                   /\ net'[j].kind = "list"
                   /\ net'[j].cont = "delete"
                   /\ net'[j].reg = net[i].reg ]_vars

\* C9: a control that is shown disabled belongs to an operation that still
\* has a request in flight.
C9_NeverStuckDisabled ==
    /\ checkFeedBtn.disabled => Running("check")
    /\ submitFeedBtn.disabled => Running("subFeed")
    /\ submitSiteBtn.disabled => Running("subSite")
    /\ \A g \in Registries, id \in Ids :
          (modalOpen /\ id \in lists[g].disabled) => DeleteRunning(g, id)

\* C10: a submit click with a url field that is empty after trimming issues
\* no request, shows the inline error, and leaves the trigger enabled with
\* its resting label and every input field as it was; for both variants.
C10_EmptyUrlSubmit ==
    [][ /\ (ClickSubmitFeed /\ Stripped(feedUrlInput) = <<>>) =>
             /\ net' = net
             /\ submitStatus' = "Please enter a URL."
             /\ submitFeedBtn' = Resting("Add Feed")
             /\ UNCHANGED fieldVars
        /\ (ClickSubmitSite /\ Stripped(siteUrlInput) = <<>>) =>
             /\ net' = net
             /\ submitSiteStatus' = "Please enter a URL."
             /\ submitSiteBtn' = Resting("Add Website")
             /\ UNCHANGED fieldVars ]_vars

C10_Witness ==
    /\ submitSiteStatus = "Please enter a URL."
    /\ siteUrlInput = <<" ">>
    /\ siteNameInput = <<"n">>
    /\ siteQueryInput = <<"n">>
    /\ submitSiteBtn = Resting("Add Website")
    /\ net = <<>>

\* the requests in flight that belong to the operation cont and are of kind
StepsOf(n, cont, kind) ==
    { j \in 1..Len(n) : n[j].cont = cont /\ n[j].kind = kind }

\* C11: when the add request of a submit fails, by a transport failure or a
\* non-success status, the submit writes no input field (url, name, query,
\* category), shows the reason of the failure in its status, and issues
\* neither the registry's list reload nor an article load; for both variants.
C11_FailedAddKeepsFields ==
    [][ \A i \in InFlight("add"), o \in AddOutcomes :
          /\ (AddFeedSettles(i, o) /\ o.t \in {"http", "fail"}) =>
                /\ UNCHANGED fieldVars
                /\ submitStatus' = IF o.t = "http" THEN "x data.error"
                                   ELSE "x Failed to fetch"
                /\ \A j \in 1..Len(net') : net'[j].cont # "subFeed"
                /\ Len(net') = Len(net) - 1
          /\ (AddSiteSettles(i, o) /\ o.t \in {"http", "fail"}) =>
                /\ UNCHANGED fieldVars
                /\ submitSiteStatus' = IF o.t = "http" THEN "x data.error"
                                       ELSE "x Failed to fetch"
                /\ \A j \in 1..Len(net') : net'[j].cont # "subSite"
                /\ Len(net') = Len(net) - 1 ]_vars

C11_Witness ==
    /\ submitStatus = "x data.error"
    /\ feedUrlInput = <<"u", " ">>
    /\ feedNameInput = <<"n">>
    /\ ~Running("subFeed")
    /\ submitFeedBtn = Resting("Add Feed")
    /\ lists["feeds"].kind = "rows"

\* C12: when the add request of a submit succeeds, the text fields are
\* cleared and the confirmation is shown, and the registry's list reload is
\* issued, not yet the article load; the article load of the submit is issued
\* when that list reload has completed, whether it succeeded or failed, and
\* never while the reload is in flight; for both variants.
C12_AddThenListThenLoad ==
    /\ [][ \A i \in InFlight("add") :
             /\ AddFeedSettles(i, net[i].resp) /\ net[i].resp.t = "ok" =>
                   /\ feedUrlInput' = <<>> /\ feedNameInput' = <<>>
                   /\ submitStatus' = "Added"
                   /\ \E j \in StepsOf(net', "subFeed", "list") :
                         net'[j].reg = "feeds"
                   /\ StepsOf(net', "subFeed", "articles") = {}
             /\ AddSiteSettles(i, net[i].resp) /\ net[i].resp.t = "ok" =>
                   /\ siteUrlInput' = <<>> /\ siteNameInput' = <<>>
                   /\ siteQueryInput' = <<>>
                   /\ submitSiteStatus' = "Added"
                   /\ \E j \in StepsOf(net', "subSite", "list") :
                         net'[j].reg = "sites"
                   /\ StepsOf(net', "subSite", "articles") = {} ]_vars
    /\ [][ \A i \in InFlight("list"), o \in AllOutcomes :
             (net[i].cont \in {"subFeed", "subSite"}
                /\ ListSettles(net[i].reg, i, o)) =>
                   /\ StepsOf(net', net[i].cont, "articles") # {}
                   /\ StepsOf(net', net[i].cont, "list") = {} ]_vars
    /\ [][ \A c \in {"subFeed", "subSite"} :
             (StepsOf(net, c, "articles") = {}
                /\ StepsOf(net', c, "articles") # {}) =>
                   /\ StepsOf(net, c, "list") # {}
                   /\ StepsOf(net', c, "list") = {} ]_vars
    /\ [](\A c \in {"subFeed", "subSite"} :
             StepsOf(net, c, "list") = {} \/ StepsOf(net, c, "articles") = {})

C12_Witness ==
    /\ submitStatus = "Added"
    /\ feedUrlInput = <<>>
    /\ lists["feeds"].kind = "error"
    /\ srv["feeds"] = {1, 2}
    /\ StepsOf(net, "subFeed", "articles") # {}
    /\ submitFeedBtn = Busy("Adding...")

\* C13: the check of a feed url never overwrites a name field that holds a
\* value: a successful preview sets the name to the suggested title exactly
\* when the name field is empty as the response is processed, a failed
\* preview leaves the name as it is; and the check creates no source: the one
\* request it issues is the GET of the preview.
C13_CheckKeepsName ==
    [][ /\ ClickCheck =>
              /\ UNCHANGED <<fieldVars, srv>>
              /\ \/ net' = net
                 \/ /\ Len(net') = Len(net) + 1
                    /\ SubSeq(net', 1, Len(net)) = net
                    /\ net'[Len(net')].kind = "preview"
                    /\ net'[Len(net')].url[1] = "GET"
        /\ \A i \in 1..MaxNet, o \in PreviewOutcomes :
              PreviewSettles(i, o) =>
                 /\ Len(net') = Len(net) - 1
                 /\ UNCHANGED srv
                 /\ feedNameInput # <<>> => feedNameInput' = feedNameInput
                 /\ o \in {"http", "malformed", "fail"} =>
                       feedNameInput' = feedNameInput
                 /\ (o = "title" /\ feedNameInput = <<>>) =>
                       feedNameInput' = <<"t">>
                 /\ (o = "notitle") => feedNameInput' = feedNameInput ]_vars

C13_Witness ==
    /\ lastPreview = [o |-> "title", name |-> <<"n">>]
    /\ feedNameInput = <<"n">>
    /\ feedUrlStatus = "Valid feed"
    /\ checkFeedBtn = Resting("Check")
    /\ ~Running("check")

\* the state openModal leaves: every text field and every status line empty
FormEmpty ==
    /\ feedUrlInput = <<>> /\ feedNameInput = <<>>
    /\ siteUrlInput = <<>> /\ siteNameInput = <<>> /\ siteQueryInput = <<>>
    /\ feedUrlStatus = "" /\ submitStatus = "" /\ submitSiteStatus = ""

\* the modal has just been opened: both list loads are as openModal issued them
JustOpened ==
    /\ modalOpen
    /\ \A g \in Registries : lists[g] = Loading
    /\ Len(net) >= 2
    /\ SubSeq(net, Len(net) - 1, Len(net)) = OpenLoads

\* C14: right after every open of the modal all five text fields and all
\* three status lines are empty, whatever they held before and however the
\* modal was closed before.
C14_OpenClears ==
    [][ OpenModal => (FormEmpty' /\ modalOpen') ]_vars

C14_Witness ==
    /\ JustOpened
    /\ dirtyClose = "escape"
    /\ FormEmpty

\* C15: every open of the modal selects the default tab.
C15_OpenSelectsDefault ==
    [][ OpenModal => activeTab' = defaultTab ]_vars

\* C16: every open of the modal issues the list load of the feed registry
\* and the list load of the site registry, whichever tab is active.
C16_OpenLoadsBoth ==
    [][ OpenModal =>
          /\ Len(net') = Len(net) + 2
          /\ SubSeq(net', 1, Len(net)) = Aged(net)
          /\ \A g \in Registries :
                /\ lists'[g].kind = "loading"
                /\ \E j \in (Len(net) + 1)..Len(net') :
                      /\ net'[j].kind = "list" /\ net'[j].reg = g
                      /\ net'[j].resp.t = "sent" ]_vars

C16_Witness ==
    /\ modalOpen
    /\ activeTab = "site"
    /\ dirtyClose # ""
    /\ \A g \in Registries :
          /\ lists[g].kind = "loading"
          /\ \E j \in 1..Len(net) : net[j].kind = "list" /\ net[j].reg = g

\* C17: a tab switch changes the active tab and nothing else: it issues no
\* request and writes no field, no status line, no trigger and no registry
\* list, of either tab.
C17_SwitchIsPure ==
    [][ \A t \in Tabs :
          SwitchTab(t) =>
             /\ activeTab' = t
             /\ net' = net
             /\ UNCHANGED <<fieldVars, feedUrlStatus, submitStatus,
                            submitSiteStatus, checkFeedBtn, submitFeedBtn,
                            submitSiteBtn, lists, srv, modalOpen>> ]_vars

C17_Witness ==
    /\ modalOpen
    /\ feedUrlInput # <<>>
    /\ submitSiteStatus = "Please enter a URL."
    /\ feedUrlStatus = "Valid feed"
    /\ activeTab = "feed"

\* C18 as stated: whenever the status request fails (transport failure,
\* non-success status, malformed body) the status line becomes the generic
\* "unavailable" message, and the "not yet fetched" message is shown only for
\* a successful response without last_fetched.
C18_StatusFailureUnavailable ==
    [][ \A i \in 1..MaxNet, o \in StatusOutcomes :
          StatusSettles(i, o) =>
             /\ o \in {"http", "malformed", "fail"} =>
                   statusText' = "Status unavailable."
             /\ statusText' = "No articles fetched yet." => o = "none" ]_vars

\* the url of an article load for the text the search field holds
UrlFor(v) ==
    IF Stripped(v) = <<>> THEN <<"/api/articles">>
    ELSE <<"/api/articles?q=", Stripped(v)>>

\* C19: every tick issues an article load for the keyword the search field
\* holds at the tick; the status refresh of a tick is issued when, and only
\* when, the load of a tick completes, whether it succeeded or failed; and a
\* load that is outstanding or has failed does not keep a tick from firing.
C19_TickLoadsThenStatus ==
    /\ [][ \A h \in 1..MaxTimers :
             Tick(h) =>
                /\ Len(net') = Len(net) + 1
                /\ SubSeq(net', 1, Len(net)) = net
                /\ net'[Len(net')].kind = "articles"
                /\ net'[Len(net')].cont = "tick"
                /\ net'[Len(net')].url = UrlFor(searchValue) ]_vars
    /\ [][ \A i \in 1..MaxNet, o \in ArticleOutcomes :
             (ArticlesSettle(i, o) /\ net[i].cont = "tick") =>
                /\ Cardinality(StepsOf(net', "tick", "status"))
                      = Cardinality(StepsOf(net, "tick", "status")) + 1
                /\ net'[Len(net')].kind = "status" ]_vars
    /\ [][ Cardinality(StepsOf(net', "tick", "status"))
              > Cardinality(StepsOf(net, "tick", "status")) =>
           Cardinality(StepsOf(net', "tick", "articles"))
              < Cardinality(StepsOf(net, "tick", "articles")) ]_vars
    /\ [](\A h \in intervals : Room(1) => ENABLED Tick(h))

C19_Witness ==
    /\ feed.kind = "error"
    /\ StepsOf(net, "tick", "status") # {}
    /\ \E j \in StepsOf(net, "tick", "articles") : net[j].kw = <<"a">>

\* C20: when an article load fails, by a transport failure or a non-success
\* status, the list area shows the error with the reason of the failure, the
\* count label keeps the value it had, and the failure does not reach the
\* caller, which goes on to its next step.
C20_FailedLoadKeepsCount ==
    [][ \A i \in 1..MaxNet, o \in ArticleOutcomes :
          (ArticlesSettle(i, o) /\ o.t \in {"http", "fail"}) =>
             /\ feed'.kind = "error"
             /\ feed'.reason = o.t
             /\ articleCount' = articleCount
             /\ unhandled' = unhandled
             /\ net[i].cont \in {"init", "refresh", "tick"} =>
                   /\ net'[Len(net')].kind = "status"
                   /\ net'[Len(net')].cont = net[i].cont ]_vars

C20_Witness ==
    /\ feed.kind = "error"
    /\ feed.reason = "http"
    /\ articleCount = <<1, "article">>
    /\ countFrom # feedFrom

\* C21 as stated: a summary no longer than the limit is rendered as it is,
\* and a longer one as exactly its first max characters followed by the
\* ellipsis marker, whatever the characters are.
C21_TruncateExact ==
    card.done =>
       card.rendered = IF Len(card.summary) <= card.max
                       THEN card.summary
                       ELSE SubSeq(card.summary, 1, card.max) \o <<"...">>

\* a request of the registry, a mutation or a list load, is in flight
RegistryBusy(g) ==
    \E i \in 1..Len(net) :
       net[i].reg = g /\ net[i].kind \in {"list", "add", "delete"}

\* C22 as stated: when mutations of a registry overlapped and every request
\* has completed, the list displayed is the outcome of the list load issued
\* last: it shows what the backend holds after the last mutation, never an
\* earlier snapshot.
C22_ListIsLatest ==
    \A g \in Registries :
       (~RegistryBusy(g) /\ lists[g].kind \in {"rows", "empty"}) =>
          lists[g].rows = srv[g]

\* C23 as stated: the response of a check or of a submit that was started
\* before the modal was last opened writes neither the name field, nor a url
\* field, nor a status line of the reopened modal.
C23_StaleResponseIgnored ==
    [][ \A i \in 1..Len(net) :
          (/\ net[i].old
           /\ \/ \E o \in PreviewOutcomes : PreviewSettles(i, o)
              \/ \E o \in AddOutcomes : AddFeedSettles(i, o)
              \/ \E o \in AddOutcomes : AddSiteSettles(i, o)) =>
             UNCHANGED <<feedNameInput, feedUrlInput, siteUrlInput,
                         feedUrlStatus, submitStatus, submitSiteStatus>> ]_vars

====
